---- MODULE Spec2Model ----
(***************************************************************************)
(* seavan: wraps one file in a container image.  The model covers the      *)
(* descriptor (Seavan), the name sanitiser (docker_safe_string), name      *)
(* generation (repository_name_and_tag) and the build invocation           *)
(* (create_image) together with the build engine and the file system it    *)
(* talks to.  Text is a sequence of one-character strings; a byte string   *)
(* that is not valid UTF-8 contains the element InvalidByte.               *)
(***************************************************************************)
EXTENDS Integers, Sequences, FiniteSets, TLC

VARIABLES self, disk, ret, build, log, lastTagArg, rntHist, san

vars == <<self, disk, ret, build, log, lastTagArg, rntHist, san>>

mainVars == <<self, disk, ret, build, log, lastTagArg, rntHist>>

(* ------------------------------ bounds --------------------------------- *)

MaxSanLen == 4

MaxTagLen == 2

MaxPathLen == 2

MaxExit == 1

(* ------------------------------ text ----------------------------------- *)

Range(s) == {s[i] : i \in 1..Len(s)}

SeqsUpTo(S, n) == UNION {[1..k -> S] : k \in 0..n}

Lower == <<"a","b","c","d","e","f","g","h","i","j","k","l","m","n","o","p","q","r","s","t","u","v","w","x","y","z">>

Upper == <<"A","B","C","D","E","F","G","H","I","J","K","L","M","N","O","P","Q","R","S","T","U","V","W","X","Y","Z">>

Digits == <<"0","1","2","3","4","5","6","7","8","9">>

HexDigits == Range(Digits) \cup {"a","b","c","d","e","f"}

InvalidByte == "<ff>"

NL == "\n"

IsUtf8(bytes) == \A i \in 1..Len(bytes) : bytes[i] # InvalidByte

NoneV == [some |-> FALSE, v |-> <<>>]

Some(x) == [some |-> TRUE, v |-> x]

Ok(v) == [ok |-> TRUE, err |-> "", val |-> v]

Err(e) == [ok |-> FALSE, err |-> e, val |-> <<>>]

ErrWith(e, payload) == [ok |-> FALSE, err |-> e, val |-> payload]

starts_with(s, prefix) ==
    /\ Len(s) >= Len(prefix)
    /\ SubSeq(s, 1, Len(prefix)) = prefix

(* ------------------------- utils.rs: sanitiser -------------------------- *)

\* the character class of the pattern "([^a-z0-9-_]+)", un-negated
InClass(c) == c \in Range(Lower) \cup Range(Digits) \cup {"-", "_"}

to_ascii_lowercase(c) ==
    IF c \in Range(Upper)
      THEN Lower[CHOOSE i \in 1..Len(Upper) : Upper[i] = c]
      ELSE c

\* the closure's per-character match arm
MapChar(c) == IF c \in Range(Upper) THEN to_ascii_lowercase(c) ELSE "-"

\* a buggy closure: one replacement for the whole capture
ReplacementCollapsed(cap) == <<"-">>

\* the closure passed to replace_all: caps[0] mapped character by character
Replacement(cap) == [i \in 1..Len(cap) |-> MapChar(cap[i])]

\* end of the leftmost-longest match of [^a-z0-9-_]+ that starts at i
RECURSIVE MatchEnd(_, _)
MatchEnd(s, i) ==
    IF i < Len(s) /\ ~InClass(s[i + 1]) THEN MatchEnd(s, i + 1) ELSE i

\* Regex::replace_all, scanning from position i
RECURSIVE ReplaceAllFrom(_, _)
ReplaceAllFrom(s, i) ==
    IF i > Len(s) THEN <<>>
    ELSE IF InClass(s[i]) THEN <<s[i]>> \o ReplaceAllFrom(s, i + 1)
    ELSE LET j == MatchEnd(s, i)
         IN Replacement(SubSeq(s, i, j)) \o ReplaceAllFrom(s, j + 1)

docker_safe_string(input) == ReplaceAllFrom(input, 1)

(* --------------------------- the file system ---------------------------- *)

W == <<"w">>

README == <<"R","E","A","D","M","E",".","m","d">>

NLNAME == <<"a", NL, "b">>

BADNAME == <<"x", InvalidByte>>

DotDot == <<".", ".">>

Root == <<>>

Dirs == {Root, <<W>>}

Files == {<<W, README>>, <<W, NLNAME>>, <<W, BADNAME>>}

ContentA == <<"a">>

ContentB == <<"b">>

Contents == {ContentA, ContentB}

\* sha2::Sha256 followed by format!("{:x}"): the digests of the byte strings used
Sha256Hex(bytes) ==
    CASE bytes = <<>> ->
           <<"e","3","b","0","c","4","4","2","9","8","f","c","1","c","1","4","9","a","f","b","f","4","c","8","9","9","6","f","b","9","2","4","2","7","a","e","4","1","e","4","6","4","9","b","9","3","4","c","a","4","9","5","9","9","1","b","7","8","5","2","b","8","5","5">>
      [] bytes = ContentA ->
           <<"c","a","9","7","8","1","1","2","c","a","1","b","b","d","c","a","f","a","c","2","3","1","b","3","9","a","2","3","d","c","4","d","a","7","8","6","e","f","f","8","1","4","7","c","4","e","7","2","b","9","8","0","7","7","8","5","a","f","e","e","4","8","b","b">>
      [] bytes = ContentB ->
           <<"3","e","2","3","e","8","1","6","0","0","3","9","5","9","4","a","3","3","8","9","4","f","6","5","6","4","e","1","b","1","3","4","8","b","b","d","7","a","0","0","8","8","d","4","2","c","4","a","c","b","7","3","e","e","a","e","d","5","9","c","0","0","9","d">>

\* Path::parent / Path::file_name on a canonical path (a sequence of components)
parent(p) == IF Len(p) = 0 THEN NoneV ELSE Some(SubSeq(p, 1, Len(p) - 1))

file_name(p) == IF Len(p) = 0 THEN NoneV ELSE Some(p[Len(p)])

\* std::fs::canonicalize: walk the components from the root, ".." steps up,
\* every intermediate must be a directory and the result must exist
RECURSIVE Resolve(_, _, _)
Resolve(cur, p, i) ==
    IF i > Len(p)
      THEN IF cur \in Dirs \cup Files THEN Ok(cur) ELSE Err("IoError")
    ELSE IF cur \notin Dirs THEN Err("IoError")
    ELSE IF p[i] = DotDot
      THEN Resolve(IF Len(cur) = 0 THEN cur ELSE SubSeq(cur, 1, Len(cur) - 1), p, i + 1)
    ELSE Resolve(Append(cur, p[i]), p, i + 1)

canonicalize(p) == Resolve(Root, p, 1)

PathArgs == SeqsUpTo({W, README, NLNAME, BADNAME, DotDot}, MaxPathLen)

(* ----------------------------- lib.rs ----------------------------------- *)

PACKAGE_ROOT == <<"s","e","a","v","a","n","p","k","g">>

DEFAULT_TAG == <<"l","a","t","e","s","t">>

DOCKER_IO == <<"d","o","c","k","e","r",".","i","o">>

DOCKER_IO_LIBRARY == <<"d","o","c","k","e","r",".","i","o","/","l","i","b","r","a","r","y">>

DOCKER_I == <<"d","o","c","k","e","r",".","i">>

ACR == <<"a","c","r",".","a","z","u","r","e","c","r",".","i","o">>

RegistryArgs == {DOCKER_IO, DOCKER_IO_LIBRARY, DOCKER_I, ACR}

TagAlphabet == {"B", "@"}

TagArgs == SeqsUpTo(TagAlphabet, MaxTagLen)

NO_DOCKER_STDERR == <<"N","o"," ","D","o","c","k","e","r"," ","s","t","d","e","r","r">>

NO_SPACE == <<"n","o"," ","s","p","a","c","e"," ","l","e","f","t"," ","o","n"," ","d","e","v","i","c","e">>

FROM_SCRATCH == <<"F","R","O","M"," ","s","c","r","a","t","c","h">>

COPY_ == <<"C","O","P","Y"," ">>

TO_ROOT == <<" ","/">>

EngineOutputs == {NO_SPACE, <<InvalidByte>>}

ExitCodes == 0..MaxExit

NoSelf == [live |-> FALSE, registry |-> NoneV, path |-> <<>>, tag |-> <<>>]

NoBuild ==
    [phase |-> "none", stdin |-> <<>>, target |-> <<>>, cwd |-> <<>>,
     copied |-> NoneV, code |-> 0, stdout |-> <<>>, stderr |-> <<>>]

\* Seavan::filename_str
filename_str(s) ==
    LET os_str == file_name(s.path)
    IN IF ~os_str.some THEN Err("NoFileName")
       ELSE IF ~IsUtf8(os_str.v) THEN Err("FailedStrConversion")
       ELSE Ok(os_str.v)

\* Seavan::working_directory
working_directory(s) ==
    LET dir == parent(s.path)
    IN IF ~dir.some THEN Err("NoDirectory") ELSE Ok(dir.v)

\* Seavan::hash: open the file, stream it through SHA-256, format as hex
hash(s, d) ==
    IF s.path \in DOMAIN d THEN Ok(Sha256Hex(d[s.path])) ELSE Err("IoError")

\* a buggy name: the file name is embedded without sanitising it
repository_name_and_tag_rawname(s, d) ==
    LET registryroot == IF s.registry.some
                          THEN s.registry.v \o <<"/">> \o PACKAGE_ROOT
                          ELSE PACKAGE_ROOT
        fname == filename_str(s)
        h == hash(s, d)
    IN IF ~fname.ok THEN fname
       ELSE IF ~h.ok THEN h
       ELSE Ok(registryroot \o <<"/">> \o h.val \o <<"-", "-">>
               \o fname.val \o <<":">> \o s.tag)

\* Seavan::repository_name_and_tag
repository_name_and_tag(s, d) ==
    LET registryroot == IF s.registry.some
                          THEN s.registry.v \o <<"/">> \o PACKAGE_ROOT
                          ELSE PACKAGE_ROOT
        fname == filename_str(s)
        h == hash(s, d)
    IN IF ~fname.ok THEN fname
       ELSE IF ~h.ok THEN h
       ELSE Ok(registryroot \o <<"/">> \o h.val \o <<"-", "-">>
               \o docker_safe_string(fname.val) \o <<":">> \o s.tag)

\* the template written to the temporary file
Manifest(fname) == FROM_SCRATCH \o <<NL>> \o COPY_ \o fname \o TO_ROOT \o <<NL>>

\* a buggy match arm: an undecodable stderr becomes a conversion error
BuildResultStrict(code, stderr, target) ==
    IF code = 0 THEN Ok(target)
    ELSE IF IsUtf8(stderr) THEN ErrWith("DockerBuildFailure", stderr)
    ELSE Err("FailedStrConversion")

\* create_image, the match on output.status.success()
BuildResult(code, stderr, target) ==
    IF code = 0 THEN Ok(target)
    ELSE ErrWith("DockerBuildFailure",
                 IF IsUtf8(stderr) THEN stderr ELSE NO_DOCKER_STDERR)

\* a variant that logs both streams whatever the exit status
DiagnosticsAlways(code, stdout, stderr) ==
    (IF IsUtf8(stdout) THEN {"stdout"} ELSE {})
    \cup (IF IsUtf8(stderr) THEN {"stderr"} ELSE {})

\* create_image, the debug! calls made after the engine exited
Diagnostics(code, stdout, stderr) ==
    IF code = 0
      THEN (IF IsUtf8(stdout) THEN {"stdout"} ELSE {})
           \cup (IF IsUtf8(stderr) THEN {"stderr"} ELSE {})
      ELSE {}

(* ------------------------------ state ----------------------------------- *)

SanIdle == [input |-> <<>>, output |-> <<>>, done |-> FALSE]

Init ==
    /\ self = NoSelf
    /\ disk = [f \in Files |-> ContentA]
    /\ ret = [op |-> "none", arg |-> <<>>, res |-> Ok(<<>>)]
    /\ build = NoBuild
    /\ log = {}
    /\ lastTagArg = NoneV
    /\ rntHist = <<>>
    /\ san = SanIdle

\* create_image blocks its caller until the engine has exited
Idle == build.phase # "running"

\* build, log and rntHist record the calls made on the descriptor as it is
\* now; a setter returns a new descriptor, whose record starts empty
Forget ==
    /\ build' = NoBuild
    /\ log' = {}
    /\ rntHist' = <<>>

\* a variant of new that rejects a path without a final component
new_checked(p) ==
    /\ ~self.live
    /\ ret.op \in {"none", "new"}
    /\ LET canonical_path == canonicalize(p)
       IN IF ~canonical_path.ok
            THEN /\ ret' = [op |-> "new", arg |-> p, res |-> canonical_path]
                 /\ UNCHANGED self
          ELSE IF ~file_name(canonical_path.val).some
            THEN /\ ret' = [op |-> "new", arg |-> p, res |-> Err("NoFileName")]
                 /\ UNCHANGED self
            ELSE /\ self' = [live |-> TRUE, path |-> canonical_path.val,
                             tag |-> DEFAULT_TAG, registry |-> NoneV]
                 /\ ret' = [op |-> "new", arg |-> p, res |-> Ok(<<>>)]
    /\ UNCHANGED <<disk, build, log, lastTagArg, rntHist, san>>

\* Seavan::new
new(p) ==
    /\ ~self.live
    /\ ret.op \in {"none", "new"}
    /\ LET canonical_path == canonicalize(p)
       IN IF ~canonical_path.ok
            THEN /\ ret' = [op |-> "new", arg |-> p, res |-> canonical_path]
                 /\ UNCHANGED self
            ELSE /\ self' = [live |-> TRUE, path |-> canonical_path.val,
                             tag |-> DEFAULT_TAG, registry |-> NoneV]
                 /\ ret' = [op |-> "new", arg |-> p, res |-> Ok(<<>>)]
    /\ UNCHANGED <<disk, build, log, lastTagArg, rntHist, san>>

\* a buggy with_tag: the tag is stored as given
with_tag_raw(t) ==
    /\ self.live
    /\ Idle
    /\ self' = [self EXCEPT !.tag = t]
    /\ ret' = [op |-> "with_tag", arg |-> t, res |-> Ok(<<>>)]
    /\ lastTagArg' = Some(t)
    /\ Forget
    /\ UNCHANGED <<disk, san>>

\* Seavan::with_tag
with_tag(t) ==
    /\ self.live
    /\ Idle
    /\ self' = [self EXCEPT !.tag = docker_safe_string(t)]
    /\ ret' = [op |-> "with_tag", arg |-> t, res |-> Ok(<<>>)]
    /\ lastTagArg' = Some(t)
    /\ Forget
    /\ UNCHANGED <<disk, san>>

\* a buggy with_registry: only the exact host is rejected
with_registry_exact(r) ==
    /\ self.live
    /\ Idle
    /\ IF r = DOCKER_IO
         THEN /\ self' = NoSelf
              /\ ret' = [op |-> "with_registry", arg |-> r, res |-> Err("BannedRegistryPrefix")]
         ELSE /\ self' = [self EXCEPT !.registry = Some(r)]
              /\ ret' = [op |-> "with_registry", arg |-> r, res |-> Ok(<<>>)]
    /\ Forget
    /\ UNCHANGED <<disk, lastTagArg, san>>

\* Seavan::with_registry; the descriptor is moved in and dropped on Err
with_registry(r) ==
    /\ self.live
    /\ Idle
    /\ IF starts_with(r, DOCKER_IO)
         THEN /\ self' = NoSelf
              /\ ret' = [op |-> "with_registry", arg |-> r, res |-> Err("BannedRegistryPrefix")]
         ELSE /\ self' = [self EXCEPT !.registry = Some(r)]
              /\ ret' = [op |-> "with_registry", arg |-> r, res |-> Ok(<<>>)]
    /\ Forget
    /\ UNCHANGED <<disk, lastTagArg, san>>

BytesAt(s, d) == IF s.path \in DOMAIN d THEN Some(d[s.path]) ELSE NoneV

LastTwo(h) == IF Len(h) > 2 THEN SubSeq(h, Len(h) - 1, Len(h)) ELSE h

\* a buggy call: the first name computed is remembered and handed out again
repository_name_and_tag_cached ==
    /\ self.live
    /\ Idle
    /\ LET r == IF rntHist # <<>> THEN rntHist[Len(rntHist)].res
                ELSE repository_name_and_tag(self, disk)
       IN /\ ret' = [op |-> "repository_name_and_tag", arg |-> <<>>, res |-> r]
          /\ rntHist' = LastTwo(Append(rntHist, [res |-> r, bytes |-> BytesAt(self, disk)]))
    /\ UNCHANGED <<self, disk, build, log, lastTagArg, san>>

\* a call of repository_name_and_tag by the owner of the descriptor
repository_name_and_tag_call ==
    /\ self.live
    /\ Idle
    /\ LET r == repository_name_and_tag(self, disk)
       IN /\ ret' = [op |-> "repository_name_and_tag", arg |-> <<>>, res |-> r]
          /\ rntHist' = LastTwo(Append(rntHist, [res |-> r, bytes |-> BytesAt(self, disk)]))
    /\ UNCHANGED <<self, disk, build, log, lastTagArg, san>>

\* create_image up to and including the spawn of the engine
create_image_start(tmpOk, spawnOk) ==
    /\ self.live
    /\ Idle
    /\ LET fname == filename_str(self)
           name == repository_name_and_tag(self, disk)
           wd == working_directory(self)
           fail(e) == /\ ret' = [op |-> "create_image", arg |-> <<>>, res |-> e]
                      /\ build' = NoBuild
       IN IF ~tmpOk THEN fail(Err("IoError"))
          ELSE IF ~fname.ok THEN fail(fname)
          ELSE IF ~name.ok THEN fail(name)
          ELSE IF ~wd.ok THEN fail(wd)
          ELSE IF ~spawnOk THEN fail(Err("IoError"))
          ELSE /\ build' = [NoBuild EXCEPT !.phase = "running",
                                           !.stdin = Manifest(fname.val),
                                           !.target = name.val,
                                           !.cwd = wd.val]
               /\ UNCHANGED ret
    /\ log' = {}
    /\ UNCHANGED <<self, disk, lastTagArg, rntHist, san>>

\* the text between the k-th and the (k+1)-th newline of a manifest
NewlineAt(m) == {i \in 1..Len(m) : m[i] = NL}

Lines(m) ==
    LET nls == NewlineAt(m)
        nth(k) == CHOOSE i \in nls : Cardinality({j \in nls : j < i}) = k - 1
        start(k) == IF k = 1 THEN 1 ELSE nth(k - 1) + 1
    IN [k \in 1..Cardinality(nls) |-> SubSeq(m, start(k), nth(k) - 1)]

\* the engine accepts a manifest of the two-line form and names its COPY source
WellFormed(m) ==
    /\ Len(m) > 0
    /\ m[Len(m)] = NL
    /\ Len(Lines(m)) = 2
    /\ Lines(m)[1] = FROM_SCRATCH
    /\ starts_with(Lines(m)[2], COPY_)
    /\ Len(Lines(m)[2]) >= Len(COPY_) + Len(TO_ROOT)

CopySource(m) ==
    LET l == Lines(m)[2] IN SubSeq(l, Len(COPY_) + 1, Len(l) - Len(TO_ROOT))

\* the engine reads the COPY source relative to its working directory
engine_copy ==
    /\ build.phase = "running"
    /\ ~build.copied.some
    /\ WellFormed(build.stdin)
    /\ LET f == Append(build.cwd, CopySource(build.stdin))
       IN /\ f \in DOMAIN disk
          /\ build' = [build EXCEPT !.copied = Some(disk[f])]
    /\ UNCHANGED <<self, disk, ret, log, lastTagArg, rntHist, san>>

\* the engine exits and create_image returns
engine_exit(code, stdout, stderr) ==
    /\ build.phase = "running"
    /\ code = 0 => build.copied.some
    /\ build' = [build EXCEPT !.phase = "exited", !.code = code,
                              !.stdout = stdout, !.stderr = stderr]
    /\ ret' = [op |-> "create_image", arg |-> <<>>, res |-> BuildResult(code, stderr, build.target)]
    /\ log' = Diagnostics(code, stdout, stderr)
    /\ UNCHANGED <<self, disk, lastTagArg, rntHist, san>>

\* another process rewrites the wrapped file
modify_file(c) ==
    /\ self.live
    /\ self.path \in DOMAIN disk
    /\ disk[self.path] # c
    /\ disk' = [disk EXCEPT ![self.path] = c]
    /\ UNCHANGED <<self, ret, build, log, lastTagArg, rntHist, san>>

Next ==
    \/ \E p \in PathArgs : new(p)
    \/ \E t \in TagArgs : with_tag(t)
    \/ \E r \in RegistryArgs : with_registry(r)
    \/ repository_name_and_tag_call
    \/ \E tmpOk \in BOOLEAN, spawnOk \in BOOLEAN : create_image_start(tmpOk, spawnOk)
    \/ engine_copy
    \/ \E code \in ExitCodes, stdout \in EngineOutputs, stderr \in EngineOutputs :
          engine_exit(code, stdout, stderr)
    \/ \E c \in Contents : modify_file(c)

Spec == Init /\ [][Next]_vars

(* ------------------ sanitiser applied to bounded inputs ----------------- *)

SanAlphabet == {"a", "B", "7", "_", "-", "@", "."}

SanInit ==
    /\ \E s \in SeqsUpTo(SanAlphabet, MaxSanLen) :
          san = [input |-> s, output |-> <<>>, done |-> FALSE]
    /\ self = NoSelf
    /\ disk = [f \in Files |-> ContentA]
    /\ ret = [op |-> "none", arg |-> <<>>, res |-> Ok(<<>>)]
    /\ build = NoBuild
    /\ log = {}
    /\ lastTagArg = NoneV
    /\ rntHist = <<>>

SanApply ==
    /\ ~san.done
    /\ san' = [san EXCEPT !.output = docker_safe_string(san.input), !.done = TRUE]
    /\ UNCHANGED mainVars

SanNext == SanApply

SpecSan == SanInit /\ [][SanNext]_vars

(* ------------------------------ claims ---------------------------------- *)

AllInClass(s) == \A i \in 1..Len(s) : InClass(s[i])

IsHex64(s) == Len(s) = Len(Sha256Hex(<<>>)) /\ \A i \in 1..Len(s) : s[i] \in HexDigits

\* name has the shape  ...seavanpkg/<digest>--...
EmbedsDigest(name, digest) ==
    \E i \in 1..Len(name) :
        /\ i > Len(PACKAGE_ROOT) + 1
        /\ SubSeq(name, i - Len(PACKAGE_ROOT) - 1, i - 1) = PACKAGE_ROOT \o <<"/">>
        /\ SubSeq(name, i, i + Len(digest) - 1) = digest
        /\ SubSeq(name, i + Len(digest), i + Len(digest) + 1) = <<"-", "-">>

\* C1: with_registry(r) fails with BannedRegistryPrefix exactly when r begins
\* with "docker.io", and then no descriptor carrying r is left; otherwise r is
\* stored.  The stored registry never begins with "docker.io", and no other
\* operation returns the banned-prefix error.
C1_BannedPrefix ==
    /\ self.live /\ self.registry.some => ~starts_with(self.registry.v, DOCKER_IO)
    /\ ret.res.err = "BannedRegistryPrefix" => ret.op = "with_registry"
    /\ ret.op = "with_registry" =>
          IF starts_with(ret.arg, DOCKER_IO)
            THEN ret.res = Err("BannedRegistryPrefix") /\ ~self.live
            ELSE ret.res.ok /\ self.live /\ self.registry = Some(ret.arg)

C1_Witness ==
    /\ ret.op = "with_registry"
    /\ ret.arg = DOCKER_IO_LIBRARY
    /\ ret.res.err = "BannedRegistryPrefix"

\* C2: the stored tag only has characters of [a-z0-9-_]; it is "latest" until
\* the first with_tag call and docker_safe_string(t) after with_tag(t).
C2_TagSafe ==
    self.live =>
        /\ AllInClass(self.tag)
        /\ ~lastTagArg.some => self.tag = DEFAULT_TAG
        /\ lastTagArg.some => self.tag = docker_safe_string(lastTagArg.v)

C2_Witness ==
    /\ self.live
    /\ lastTagArg = Some(<<"B", "@">>)
    /\ self.tag = <<"b", "-">>

\* the sanitiser as the specification describes it: upper case folded, every
\* maximal run of other disallowed characters replaced by one '-'
RECURSIVE CollapseFrom(_, _)
CollapseFrom(s, i) ==
    IF i > Len(s) THEN <<>>
    ELSE IF InClass(s[i]) THEN <<s[i]>> \o CollapseFrom(s, i + 1)
    ELSE IF s[i] \in Range(Upper) THEN <<to_ascii_lowercase(s[i])>> \o CollapseFrom(s, i + 1)
    ELSE IF i > 1 /\ ~InClass(s[i - 1]) /\ s[i - 1] \notin Range(Upper)
      THEN CollapseFrom(s, i + 1)
    ELSE <<"-">> \o CollapseFrom(s, i + 1)

\* C3 as stated: every maximal run of characters outside [a-z0-9-_] comes out
\* as a single '-' (inputs without upper-case letters, where the run is all
\* non-letters).
C3_CollapsesRuns ==
    san.done /\ (\A i \in 1..Len(san.input) : san.input[i] \notin Range(Upper)) =>
        san.output = CollapseFrom(san.input, 1)

\* C3 as amended: docker_safe_string replaces character by character; the
\* output is as long as the input, allowed characters are kept, an upper-case
\* letter becomes its lower-case letter and every other character one '-'.
C3_PerCharacter ==
    san.done =>
        /\ Len(san.output) = Len(san.input)
        /\ \A i \in 1..Len(san.input) :
              san.output[i] =
                 IF InClass(san.input[i]) THEN san.input[i]
                 ELSE IF san.input[i] \in Range(Upper)
                   THEN to_ascii_lowercase(san.input[i])
                 ELSE "-"

C3_Witness ==
    /\ san.done
    /\ san.input = <<"a", "@", ".", "a">>
    /\ san.output = <<"a", "-", "-", "a">>

IsReadmeDefault ==
    /\ self.live
    /\ file_name(self.path) = Some(README)
    /\ ~self.registry.some
    /\ ~lastTagArg.some
    /\ ret.op = "repository_name_and_tag"
    /\ ret.res.ok

NameWithSegment(name, segment) ==
    LET pre == PACKAGE_ROOT \o <<"/">>
        post == <<"-", "-">> \o segment \o <<":">> \o DEFAULT_TAG
        hexLen == Len(Sha256Hex(<<>>))
    IN /\ Len(name) = Len(pre) + hexLen + Len(post)
       /\ SubSeq(name, 1, Len(pre)) = pre
       /\ IsHex64(SubSeq(name, Len(pre) + 1, Len(pre) + hexLen))
       /\ SubSeq(name, Len(pre) + hexLen + 1, Len(name)) = post

\* C4 as stated: for README.md without registry and tag the name is
\* seavanpkg/<64 hex>--readme.md:latest
C4_ReadmeDot ==
    IsReadmeDefault => NameWithSegment(ret.res.val, <<"r","e","a","d","m","e",".","m","d">>)

\* C4 as amended: for README.md without registry and tag the name is
\* seavanpkg/<64 lower-case hex>--readme-md:latest (the '.' is replaced too)
C4_ReadmeDash ==
    IsReadmeDefault => NameWithSegment(ret.res.val, <<"r","e","a","d","m","e","-","m","d">>)

C4_Witness ==
    /\ IsReadmeDefault
    /\ EmbedsDigest(ret.res.val, Sha256Hex(ContentB))

\* C5 as stated: no descriptor is produced for a path whose canonical form has
\* no final component; new fails with NoFileName
C5_NewRejectsRoot ==
    /\ self.live => file_name(self.path).some
    /\ ret.op = "new" /\ canonicalize(ret.arg).ok /\ ~file_name(canonicalize(ret.arg).val).some
          => ret.res = Err("NoFileName")

\* C5 as amended: new succeeds whenever the path resolves, also to a path
\* without final component, and never returns NoFileName; on such a descriptor
\* repository_name_and_tag returns NoFileName and create_image fails with
\* NoFileName unless its temporary file could not be created (io error).
C5_NoFileNameOnUse ==
    /\ ret.op = "new" =>
          /\ ret.res.ok = canonicalize(ret.arg).ok
          /\ ret.res.ok => self.live /\ self.path = canonicalize(ret.arg).val
          /\ ret.res.err # "NoFileName"
    /\ self.live /\ ~file_name(self.path).some =>
          /\ ret.op = "repository_name_and_tag" => ret.res = Err("NoFileName")
          /\ ret.op = "create_image" => ret.res \in {Err("NoFileName"), Err("IoError")}
          /\ build.phase = "none"

C5_Witness ==
    /\ self.live
    /\ self.path = Root
    /\ ret.op = "create_image"
    /\ ret.res = Err("NoFileName")

\* C6: once the engine has exited the result of create_image follows from the
\* exit status: Ok(the -t target) on zero, otherwise DockerBuildFailure with
\* the captured stderr, or "No Docker stderr" when that is not valid UTF-8.
C6_ResultFromExit ==
    ret.op = "create_image" /\ build.phase = "exited" =>
        IF build.code = 0
          THEN ret.res = Ok(build.target)
          ELSE /\ ~ret.res.ok
               /\ ret.res.err = "DockerBuildFailure"
               /\ ret.res.val = IF IsUtf8(build.stderr) THEN build.stderr
                                ELSE NO_DOCKER_STDERR

C6_Witness ==
    /\ ret.op = "create_image"
    /\ build.phase = "exited"
    /\ build.code # 0
    /\ ~IsUtf8(build.stderr)
    /\ ret.res.val = NO_DOCKER_STDERR

\* C7 as stated: two calls of repository_name_and_tag with no with_tag /
\* with_registry in between return the same string
C7_SameDescriptorSameName ==
    Len(rntHist) = 2 => rntHist[1].res = rntHist[2].res

\* C7 as amended: the name is computed anew from the descriptor and the bytes
\* the file has at the call: two calls with no with_tag / with_registry in
\* between return the same result when the file's bytes are the same at both,
\* and a returned name embeds the digest of the bytes at its call.
C7_SameBytesSameName ==
    /\ Len(rntHist) = 2 /\ rntHist[1].bytes = rntHist[2].bytes
          => rntHist[1].res = rntHist[2].res
    /\ \A k \in 1..Len(rntHist) :
          rntHist[k].res.ok =>
              /\ rntHist[k].bytes.some
              /\ EmbedsDigest(rntHist[k].res.val, Sha256Hex(rntHist[k].bytes.v))

C7_Witness ==
    /\ Len(rntHist) = 2
    /\ rntHist[1].res.ok
    /\ rntHist[1].bytes = Some(ContentB)
    /\ rntHist[2].bytes = Some(ContentB)
    /\ disk[self.path] = ContentA

\* C8: the manifest on the engine's standard input is exactly the two
\* newline-terminated lines "FROM scratch" and "COPY <base name> /"
C8_TwoLineManifest ==
    build.phase \in {"running", "exited"} =>
        /\ build.stdin[Len(build.stdin)] = NL
        /\ Lines(build.stdin)
             = <<FROM_SCRATCH, COPY_ \o file_name(self.path).v \o TO_ROOT>>

\* C9 as stated: after the engine exited both captured streams have been
\* emitted as diagnostics, whatever the exit status
C9_LogsRegardless ==
    build.phase = "exited" => log = {"stdout", "stderr"}

\* C9 as amended: on exit status zero create_image emits each captured stream
\* that is valid UTF-8; on a nonzero status it emits nothing (stderr travels in
\* the error); the result is Ok exactly on status zero either way.
C9_LogsOnSuccessOnly ==
    build.phase = "exited" =>
        /\ build.code = 0 =>
              log = {x \in {"stdout", "stderr"} :
                        IsUtf8(IF x = "stdout" THEN build.stdout ELSE build.stderr)}
        /\ build.code # 0 => log = {}
        /\ ret.op = "create_image" => (ret.res.ok <=> build.code = 0)

C9_Witness ==
    /\ build.phase = "exited"
    /\ build.code # 0
    /\ build.stderr = NO_SPACE
    /\ log = {}

\* C10: on a successful create_image the digest in the returned name is the
\* SHA-256 of the bytes the engine copied into the image
C10_ContentAddressed ==
    build.phase = "exited" /\ build.code = 0 =>
        EmbedsDigest(build.target, Sha256Hex(build.copied.v))

====
